---- MODULE Spec2Model ----
(***************************************************************************)
(* Model of examples/latency.rs: the per-element mean latency report built *)
(* from GStreamer latency-tracer logs.                                      *)
(*                                                                         *)
(* Strings are modelled as sequences of one-character strings, so that     *)
(* splitting, digit stripping, substring search and byte-wise comparison   *)
(* are computed rather than assumed.                                       *)
(***************************************************************************)
EXTENDS Integers, Sequences, FiniteSets, TLC

VARIABLES opt, element_totals, consumed, pc, report, norm_in, norm_out, norm_pc

vars == <<opt, element_totals, consumed, pc, report, norm_in, norm_out, norm_pc>>

(***************************************************************************)
(* Bounds                                                                  *)
(***************************************************************************)
MaxStream == 3
MaxNameLen == 4

(***************************************************************************)
(* Characters and strings                                                  *)
(***************************************************************************)
Alphabet ==
    <<"-", "0", "1", "2", "3", "4", "5", "6", "7", "8", "9",
      "a", "b", "c", "d", "e", "f", "g", "h", "i", "j", "k", "l", "m",
      "n", "o", "p", "q", "r", "s", "t", "u", "v", "w", "x", "y", "z">>

Code(c) == CHOOSE i \in 1..Len(Alphabet) : Alphabet[i] = c

Digits == {"0", "1", "2", "3", "4", "5", "6", "7", "8", "9"}

DropLast(s) == SubSeq(s, 1, Len(s) - 1)

\* Ordering::Less of str::cmp: byte-wise lexicographic, a proper prefix is less
RECURSIVE StrLess(_, _)
StrLess(a, b) ==
    IF a = <<>> THEN b # <<>>
    ELSE IF b = <<>> THEN FALSE
    ELSE IF Code(Head(a)) # Code(Head(b)) THEN Code(Head(a)) < Code(Head(b))
    ELSE StrLess(Tail(a), Tail(b))

\* name.split('-').collect(): the '-'-separated segments, empty ones included
RECURSIVE SplitAcc(_, _, _)
SplitAcc(s, cur, acc) ==
    IF s = <<>> THEN Append(acc, cur)
    ELSE IF Head(s) = "-" THEN SplitAcc(Tail(s), <<>>, Append(acc, cur))
    ELSE SplitAcc(Tail(s), Append(cur, Head(s)), acc)

split(name) == SplitAcc(name, <<>>, <<>>)

\* parts.join("-")
RECURSIVE join(_)
join(parts) ==
    IF parts = <<>> THEN <<>>
    ELSE IF Len(parts) = 1 THEN parts[1]
    ELSE parts[1] \o <<"-">> \o join(Tail(parts))

\* Regex \d+$ replaced by "": the leftmost match that reaches the end of the
\* text is the whole trailing run of digits
RECURSIVE re_replace(_)
re_replace(s) ==
    IF s # <<>> /\ s[Len(s)] \in Digits THEN re_replace(DropLast(s)) ELSE s

normalize_name_all_parts(name) ==
    LET parts == split(name)
    IN  join([i \in 1..Len(parts) |-> re_replace(parts[i])])

normalize_name(name) ==
    LET parts == split(name)
        first_part == re_replace(parts[1])
    IN  IF Len(parts) > 1
        THEN first_part \o <<"-">> \o join(Tail(parts))
        ELSE first_part

\* Regex::is_match for a pattern without metacharacters: unanchored search
is_match(re, text) ==
    \E i \in 1..(Len(text) - Len(re) + 1) : SubSeq(text, i, i + Len(re) - 1) = re

(***************************************************************************)
(* Inputs: names, tracer structures, log entries, command lines            *)
(***************************************************************************)
queue == <<"q", "u", "e", "u", "e">>
queue0 == <<"q", "u", "e", "u", "e", "0">>
queue1 == <<"q", "u", "e", "u", "e", "1">>
enc0 == <<"e", "n", "c", "0">>
enc1 == <<"e", "n", "c", "1">>
enc0_src1 == <<"e", "n", "c", "0", "-", "s", "r", "c", "1">>
gesvideourisource0_videoconvertscale ==
    <<"g", "e", "s", "v", "i", "d", "e", "o", "u", "r", "i", "s", "o", "u",
      "r", "c", "e", "0", "-", "v", "i", "d", "e", "o", "c", "o", "n", "v",
      "e", "r", "t", "s", "c", "a", "l", "e">>
gesvideourisource_videoconvertscale ==
    <<"g", "e", "s", "v", "i", "d", "e", "o", "u", "r", "i", "s", "o", "u",
      "r", "c", "e", "-", "v", "i", "d", "e", "o", "c", "o", "n", "v",
      "e", "r", "t", "s", "c", "a", "l", "e">>
multiqueue184 ==
    <<"m", "u", "l", "t", "i", "q", "u", "e", "u", "e", "1", "8", "4">>
multiqueue == <<"m", "u", "l", "t", "i", "q", "u", "e", "u", "e">>
nvh264enc == <<"n", "v", "h", "2", "6", "4", "e", "n", "c">>

\* A tracer structure: its name and the fields it carries
Structure(name, fields) == [name |-> name, fields |-> fields]

ElementLatency(fields) == Structure("element-latency", fields)

\* A parsed log entry; decodable is FALSE when message_to_struct() gives None
Entry(category, level, decodable, s) ==
    [category |-> category, level |-> level, decodable |-> decodable, s |-> s]

Traced(s) == Entry("GST_TRACER", "Trace", TRUE, s)

F3(element, src, time) ==
    ("element" :> element) @@ ("src" :> src) @@ ("time" :> time)

WellFormedPool ==
    { Traced(ElementLatency(F3(enc0, queue0, 100))),
      Traced(ElementLatency(F3(enc0, queue0, 300))),
      Traced(ElementLatency(F3(enc1, queue1, 205))),
      Traced(ElementLatency(F3(queue, enc0_src1, 7))) }

MalformedPool ==
    { Traced(ElementLatency(("element" :> enc1) @@ ("src" :> queue1))),
      Traced(ElementLatency(("element" :> enc1) @@ ("time" :> 100))),
      Traced(ElementLatency(("src" :> queue0) @@ ("time" :> 100))) }

IgnoredPool ==
    { Entry("GST_PADS", "Trace", TRUE, ElementLatency(F3(enc0, queue0, 100))),
      Entry("GST_TRACER", "Debug", TRUE, ElementLatency(F3(enc0, queue0, 100))),
      Entry("GST_TRACER", "Trace", FALSE, Structure("", <<>>)),
      Traced(Structure("latency", ("src" :> queue0) @@ ("time" :> 100))),
      Traced(Structure("element-reported-latency", ("element" :> enc0))),
      Traced(Structure("new-element", ("element" :> enc0) @@ ("time" :> 100))) }

EntryPool == WellFormedPool \cup MalformedPool \cup IgnoredPool

\* Option<Regex>
None == [some |-> FALSE, re |-> <<>>]
Some(re) == [some |-> TRUE, re |-> re]

OptPool ==
    [sort_by_element : BOOLEAN,
     total_element_view : BOOLEAN,
     element_filter : {None, Some(queue), Some(<<"0">>)}]

(***************************************************************************)
(* Count and Latency                                                       *)
(***************************************************************************)
Count_new == [n |-> 0, total |-> 0]

mean_ceil(count) == (count.total + count.n - 1) \div count.n

\* Count::mean: integer division of the total by the number of measurements
mean(count) == count.total \div count.n

Latency_new == <<>>

\* entry(element).or_insert_with(Count::new)
insert_or_get_count(totals, element) ==
    IF element \in DOMAIN totals THEN totals ELSE totals @@ (element :> Count_new)

update_count_no_incr(totals, element, new_time) ==
    [totals EXCEPT ![element] = [n |-> @.n, total |-> @.total + new_time]]

update_count_assign(totals, element, new_time) ==
    [totals EXCEPT ![element] = [n |-> @.n + 1, total |-> new_time]]

\* get_mut(&element).unwrap(); n += 1; total += new_time
update_count(totals, element, new_time) ==
    [totals EXCEPT ![element] = [n |-> @.n + 1, total |-> @.total + new_time]]

(***************************************************************************)
(* main: one iteration of the loop over the parsed entries                 *)
(***************************************************************************)
passes_filter_level_only(entry) == entry.level = "Trace"

\* the filter closure put on parse(input)
passes_filter(entry) == entry.category = "GST_TRACER" /\ entry.level = "Trace"

key_field_src(o) == "src"

\* the field the grouping key is read from
key_field(o) == IF o.sort_by_element THEN "element" ELSE "src"

\* s.get::<T>(field) is Some
has_field(s, field) == field \in DOMAIN s.fields

view_key_raw(o, entry_key) == entry_key

\* the entry key as grouped: normalized under --blanket-view
view_key(o, entry_key) ==
    IF o.total_element_view THEN normalize_name(entry_key) ELSE entry_key

filtered_out_never(o, entry_key) == FALSE

\* the element filter is set and does not match the key
filtered_out(o, entry_key) ==
    o.element_filter.some /\ ~is_match(o.element_filter.re, entry_key)

Outcome(totals, status) == [totals |-> totals, status |-> status]

element_latency_skip_no_time(totals, s, o) ==
    IF ~has_field(s, key_field(o)) THEN Outcome(totals, "panic")
    ELSE LET entry_key == view_key(o, s.fields[key_field(o)])
         IN  IF filtered_out(o, entry_key) \/ ~has_field(s, "time")
             THEN Outcome(totals, "continue")
             ELSE Outcome(update_count(insert_or_get_count(totals, entry_key),
                                       entry_key, s.fields["time"]), "ok")

\* the "element-latency" arm of the match
element_latency(totals, s, o) ==
    IF ~has_field(s, key_field(o)) THEN Outcome(totals, "panic")
    ELSE LET entry_key == view_key(o, s.fields[key_field(o)])
         IN  IF filtered_out(o, entry_key) THEN Outcome(totals, "continue")
             ELSE LET inserted == insert_or_get_count(totals, entry_key)
                  IN  IF ~has_field(s, "time") THEN Outcome(inserted, "panic")
                      ELSE Outcome(update_count(inserted, entry_key,
                                                s.fields["time"]), "ok")

\* the body of `for entry in parsed`, the filter on the iterator included
loop_body(totals, entry, o) ==
    IF ~passes_filter(entry) THEN Outcome(totals, "continue")
    ELSE IF ~entry.decodable THEN Outcome(totals, "continue")
    ELSE IF entry.s.name = "element-latency"
         THEN element_latency(totals, entry.s, o)
    ELSE Outcome(totals, "continue")

(***************************************************************************)
(* main: the report                                                        *)
(***************************************************************************)
\* the orders in which HashMap::iter may yield the keys
IterOrders(totals) ==
    { p \in [1..Cardinality(DOMAIN totals) -> DOMAIN totals] :
        \A i, j \in DOMAIN p : i # j => p[i] # p[j] }

RECURSIVE InsertSorted(_, _)
InsertSorted(sorted, k) ==
    IF sorted = <<>> THEN <<k>>
    ELSE IF StrLess(k, Head(sorted)) THEN <<k>> \o sorted
    ELSE <<Head(sorted)>> \o InsertSorted(Tail(sorted), k)

RECURSIVE SortFrom(_, _)
SortFrom(keys, sorted) ==
    IF keys = <<>> THEN sorted
    ELSE SortFrom(Tail(keys), InsertSorted(sorted, Head(keys)))

sorted_by_unsorted(keys) == keys

\* sorted_by(|a, b| a.name.cmp(&b.name)): a stable sort by name
sorted_by(keys) == SortFrom(keys, <<>>)

\* the lines printed after "Mean latency:"
render(totals, order) ==
    LET pads == sorted_by(order)
    IN  [i \in 1..Len(pads) |-> [name |-> pads[i], mean |-> mean(totals[pads[i]])]]

(***************************************************************************)
(* State machine                                                           *)
(***************************************************************************)
DefaultOpt ==
    [sort_by_element |-> FALSE, total_element_view |-> FALSE,
     element_filter |-> None]

Init ==
    /\ opt \in OptPool
    /\ element_totals = Latency_new
    /\ consumed = <<>>
    /\ pc = "loop"
    /\ report = <<>>
    /\ norm_in = <<>>
    /\ norm_out = <<>>
    /\ norm_pc = "idle"

\* the parser yields one more entry and the loop body runs on it
ProcessEntry(entry) ==
    /\ pc = "loop"
    /\ Len(consumed) < MaxStream
    /\ LET out == loop_body(element_totals, entry, opt)
       IN  /\ element_totals' = out.totals
           /\ pc' = IF out.status = "panic" THEN "panicked" ELSE "loop"
    /\ consumed' = Append(consumed, entry)
    /\ UNCHANGED <<opt, report, norm_in, norm_out, norm_pc>>

\* the parser is exhausted: the report is printed and main returns Ok(())
Render ==
    /\ pc = "loop"
    /\ \E order \in IterOrders(element_totals) :
          report' = render(element_totals, order)
    /\ pc' = "done"
    /\ UNCHANGED <<opt, element_totals, consumed, norm_in, norm_out, norm_pc>>

Next == (\E entry \in EntryPool : ProcessEntry(entry)) \/ Render

Spec == Init /\ [][Next]_vars

(***************************************************************************)
(* normalize_name on its own                                               *)
(***************************************************************************)
NormChars == {"a", "0", "1", "-"}

TestNames ==
    { gesvideourisource0_videoconvertscale, queue0, multiqueue184, nvh264enc }

NameInputs ==
    TestNames \cup UNION { [1..n -> NormChars] : n \in 0..MaxNameLen }

InitNorm ==
    /\ opt = DefaultOpt
    /\ element_totals = Latency_new
    /\ consumed = <<>>
    /\ pc = "loop"
    /\ report = <<>>
    /\ norm_in \in NameInputs
    /\ norm_out = <<>>
    /\ norm_pc = "call"

CallNormalize ==
    /\ norm_pc = "call"
    /\ norm_out' = normalize_name(norm_in)
    /\ norm_pc' = "returned"
    /\ UNCHANGED <<opt, element_totals, consumed, pc, report, norm_in>>

NextNorm == CallNormalize

SpecNorm == InitNorm /\ [][NextNorm]_vars

(***************************************************************************)
(* Vocabulary of the properties                                            *)
(***************************************************************************)
Min(S) == CHOOSE x \in S : \A y \in S : x <= y

Max(S) == CHOOSE x \in S : \A y \in S : x >= y

\* s without its trailing run of decimal digits
WithoutTrailingDigits(s) ==
    SubSeq(s, 1, Max({i \in 0..Len(s) : i = 0 \/ s[i] \notin Digits}))

\* name with the trailing digits of the text before its first '-' removed
FirstSegmentStripped(name) ==
    LET dashes == {i \in 1..Len(name) : name[i] = "-"}
        cut == IF dashes = {} THEN Len(name) + 1 ELSE Min(dashes)
    IN  WithoutTrailingDigits(SubSeq(name, 1, cut - 1))
            \o SubSeq(name, cut, Len(name))

IsElementLatency(e) ==
    /\ e.category = "GST_TRACER"
    /\ e.level = "Trace"
    /\ e.decodable
    /\ e.s.name = "element-latency"

SelectedField == IF opt.sort_by_element THEN "element" ELSE "src"

HasKey(e) == SelectedField \in DOMAIN e.s.fields

HasTime(e) == "time" \in DOMAIN e.s.fields

DerivedKey(e) ==
    IF opt.total_element_view
    THEN FirstSegmentStripped(e.s.fields[SelectedField])
    ELSE e.s.fields[SelectedField]

Matches(k) ==
    ~opt.element_filter.some \/ is_match(opt.element_filter.re, k)

\* an element-latency entry that is recorded
Accepted(e) ==
    IsElementLatency(e) /\ HasKey(e) /\ HasTime(e) /\ Matches(DerivedKey(e))

\* positions of the consumed entries recorded under key k
Recorded(k) ==
    {i \in 1..Len(consumed) : Accepted(consumed[i]) /\ DerivedKey(consumed[i]) = k}

RECURSIVE SumTimes(_)
SumTimes(I) ==
    IF I = {} THEN 0
    ELSE LET i == CHOOSE x \in I : TRUE
         IN  consumed[i].s.fields["time"] + SumTimes(I \ {i})

ReportNames == {report[i].name : i \in DOMAIN report}

(***************************************************************************)
(* C1: normalize_name returns its argument with the trailing run of        *)
(* decimal digits removed from the first '-'-separated segment only, all   *)
(* later segments and separators unchanged; the four names of the unit     *)
(* test give the results the test expects.                                 *)
(***************************************************************************)
C1_NormalizeFirstSegmentOnly ==
    norm_pc = "returned" =>
        /\ norm_out = FirstSegmentStripped(norm_in)
        /\ norm_in = gesvideourisource0_videoconvertscale
              => norm_out = gesvideourisource_videoconvertscale
        /\ norm_in = queue0 => norm_out = queue
        /\ norm_in = multiqueue184 => norm_out = multiqueue
        /\ norm_in = nvh264enc => norm_out = nvh264enc

C1_Witness ==
    /\ norm_pc = "returned"
    /\ norm_in = <<"a", "1", "-", "0">>
    /\ norm_out = <<"a", "-", "0">>

(***************************************************************************)
(* C2: once the stream is consumed and the report printed, every key of    *)
(* the accumulator has a line whose mean is the floor of the sum of the    *)
(* times recorded under the key divided by their number, the recorded      *)
(* measurements being the accepted element-latency entries with that key.  *)
(***************************************************************************)
C2_MeanIsFloorOfSumOverCount ==
    pc = "done" =>
        \A k \in DOMAIN element_totals :
            /\ Recorded(k) # {}
            /\ \E i \in DOMAIN report :
                  /\ report[i].name = k
                  /\ report[i].mean =
                        SumTimes(Recorded(k)) \div Cardinality(Recorded(k))

C2_Witness ==
    /\ pc = "done"
    /\ \E i \in DOMAIN report :
          /\ Cardinality(Recorded(report[i].name)) = 2
          /\ SumTimes(Recorded(report[i].name)) = 305
          /\ report[i].mean = 152

(***************************************************************************)
(* C3: with an element filter set, no key that does not match the pattern  *)
(* is ever in the accumulator, and the final report has a key exactly when *)
(* some element-latency entry of the stream has that derived key and the   *)
(* key matches the pattern.                                                *)
(***************************************************************************)
C3_FilterDecidesReportKeys ==
    opt.element_filter.some =>
        /\ \A k \in DOMAIN element_totals : is_match(opt.element_filter.re, k)
        /\ pc = "done" =>
              ReportNames =
                  { DerivedKey(consumed[i]) :
                      i \in { j \in 1..Len(consumed) :
                                /\ IsElementLatency(consumed[j])
                                /\ HasKey(consumed[j])
                                /\ is_match(opt.element_filter.re,
                                            DerivedKey(consumed[j])) } }

C3_Witness ==
    /\ pc = "done"
    /\ opt.element_filter.some
    /\ ReportNames # {}
    /\ \E i \in 1..Len(consumed) :
          /\ IsElementLatency(consumed[i])
          /\ HasKey(consumed[i])
          /\ ~Matches(DerivedKey(consumed[i]))

(***************************************************************************)
(* C4 as stated: an element-latency entry lacking "time" or lacking the    *)
(* selected key field ends the run in a fatal error under any command      *)
(* line; it is never skipped and no report follows it.                     *)
(***************************************************************************)
C4_Original ==
    \A i \in 1..Len(consumed) :
        IsElementLatency(consumed[i]) /\ (~HasKey(consumed[i]) \/ ~HasTime(consumed[i]))
            => pc = "panicked" /\ i = Len(consumed) /\ report = <<>>

\* an entry the loop body panics on
Fatal(e) ==
    /\ IsElementLatency(e)
    /\ \/ ~HasKey(e)
       \/ ~HasTime(e) /\ Matches(DerivedKey(e))

(***************************************************************************)
(* C4 amended: an element-latency entry lacking the selected key field, or *)
(* lacking "time" while its derived key passes the element filter (or no   *)
(* filter is set), ends the run in a fatal error: it is the last entry     *)
(* consumed and no report is printed.  An entry lacking "time" whose key   *)
(* the filter rejects is discarded by the filter and the run goes on; the  *)
(* run fails on no other entry.                                            *)
(***************************************************************************)
C4_FatalUnlessFilteredOut ==
    /\ \A i \in 1..Len(consumed) :
          Fatal(consumed[i])
              => pc = "panicked" /\ i = Len(consumed) /\ report = <<>>
    /\ pc = "panicked" => consumed # <<>> /\ Fatal(consumed[Len(consumed)])

C4_Witness ==
    /\ pc = "panicked"
    /\ opt.element_filter.some
    /\ Len(consumed) >= 2
    /\ HasKey(consumed[Len(consumed)])
    /\ ~HasTime(consumed[Len(consumed)])
    /\ element_totals # <<>>
    /\ report = <<>>

Ignorable(e) ==
    \/ e.category # "GST_TRACER"
    \/ e.level # "Trace"
    \/ ~e.decodable
    \/ e.s.name # "element-latency"

(***************************************************************************)
(* C6: processing an entry outside the tracer category, or not at trace    *)
(* level, or whose message does not decode, or whose structure is named    *)
(* anything but "element-latency", leaves the accumulator unchanged and    *)
(* raises no error; a stream of such entries only ends with an empty       *)
(* report and normal completion.                                           *)
(***************************************************************************)
C6_IgnorableEntriesChangeNothing ==
    [][ /\ \A e \in EntryPool :
              pc = "loop" /\ consumed' = Append(consumed, e) /\ Ignorable(e)
                  => element_totals' = element_totals /\ pc' = "loop"
        /\ (\A i \in 1..Len(consumed') : Ignorable(consumed'[i]))
              => /\ pc' # "panicked"
                 /\ element_totals' = <<>>
                 /\ report' = <<>> ]_vars

C6_Witness ==
    /\ pc = "done"
    /\ report = <<>>
    /\ Len(consumed) >= 3
    /\ \A i \in 1..Len(consumed) : Ignorable(consumed[i])
    /\ \E i \in 1..Len(consumed) : consumed[i].s.name = "latency"
    /\ \E i \in 1..Len(consumed) : consumed[i].s.name = "element-reported-latency"
    /\ \E i \in 1..Len(consumed) : consumed[i].category = "GST_PADS"

(***************************************************************************)
(* C7: the report has exactly one line per key of the final accumulator,   *)
(* the keys in strictly ascending lexicographic order, and is the same     *)
(* whatever order the map yields its keys in.                              *)
(***************************************************************************)
C7_ReportSortedOneLinePerKey ==
    pc = "done" =>
        /\ Len(report) = Cardinality(DOMAIN element_totals)
        /\ ReportNames = DOMAIN element_totals
        /\ \A i, j \in DOMAIN report :
              i < j => StrLess(report[i].name, report[j].name)
        /\ \A order \in IterOrders(element_totals) :
              render(element_totals, order) = report

C7_Witness ==
    /\ pc = "done"
    /\ Len(report) = 3
    /\ report[1].name = enc0_src1
    /\ report[2].name = queue0
    /\ report[3].name = queue1

\* number of consumed entries whose selected raw key normalizes to k
NormalizingTo(k) ==
    {i \in 1..Len(consumed) :
        /\ Accepted(consumed[i])
        /\ FirstSegmentStripped(consumed[i].s.fields[SelectedField]) = k}

(***************************************************************************)
(* C8: under --blanket-view all measurements whose selected raw keys       *)
(* normalize to the same string are aggregated in one Count under the      *)
(* normalized key, and no key of the accumulator differs from its own      *)
(* normalization; two entries with src "queue0" and times 100 and 300,     *)
(* grouped by src, give the single line "queue" with mean 200.             *)
(***************************************************************************)
C8_BlanketViewAggregatesByType ==
    opt.total_element_view =>
        /\ \A k \in DOMAIN element_totals : FirstSegmentStripped(k) = k
        /\ pc # "panicked" =>
              /\ DOMAIN element_totals =
                    { FirstSegmentStripped(consumed[i].s.fields[SelectedField]) :
                        i \in {j \in 1..Len(consumed) : Accepted(consumed[j])} }
              /\ \A k \in DOMAIN element_totals :
                    /\ element_totals[k].n = Cardinality(NormalizingTo(k))
                    /\ element_totals[k].total = SumTimes(NormalizingTo(k))
        /\ ( /\ pc = "done"
             /\ ~opt.sort_by_element
             /\ Matches(queue)
             /\ consumed \in
                   { <<Traced(ElementLatency(F3(enc0, queue0, 100))),
                       Traced(ElementLatency(F3(enc0, queue0, 300)))>>,
                     <<Traced(ElementLatency(F3(enc0, queue0, 300))),
                       Traced(ElementLatency(F3(enc0, queue0, 100)))>> } )
              => report = <<[name |-> queue, mean |-> 200]>>

C8_Witness ==
    /\ pc = "done"
    /\ opt.total_element_view
    /\ ~opt.sort_by_element
    /\ consumed = <<Traced(ElementLatency(F3(enc0, queue0, 100))),
                    Traced(ElementLatency(F3(enc0, queue0, 300)))>>
    /\ report = <<[name |-> queue, mean |-> 200]>>

\* an entry with every field its structure is to carry
WellFormed(e) ==
    IsElementLatency(e) => {"element", "src", "time"} \subseteq DOMAIN e.s.fields

\* the arrival orders of the entries of stream
ArrivalOrders(stream) ==
    { [i \in 1..Len(stream) |-> stream[p[i]]] :
        p \in { q \in [1..Len(stream) -> 1..Len(stream)] :
                  \A i, j \in 1..Len(stream) : i # j => q[i] # q[j] } }

\* the accumulator after the loop has run over stream
RECURSIVE RunLoop(_, _)
RunLoop(totals, stream) ==
    IF stream = <<>> THEN totals
    ELSE RunLoop(loop_body(totals, Head(stream), opt).totals, Tail(stream))

(***************************************************************************)
(* C9: for a fixed command line and a fixed multiset of well-formed        *)
(* entries, every arrival order gives the same final accumulator: the      *)
(* same keys, and the same n and total for each.                           *)
(***************************************************************************)
C9_ArrivalOrderIrrelevant ==
    (\A i \in 1..Len(consumed) : WellFormed(consumed[i])) =>
        \A stream \in ArrivalOrders(consumed) :
            RunLoop(Latency_new, stream) = element_totals

C9_Witness ==
    /\ pc = "done"
    /\ Len(consumed) >= 3
    /\ \A i \in 1..Len(consumed) : WellFormed(consumed[i])
    /\ \E i, j \in 1..Len(consumed) :
          /\ Accepted(consumed[i]) /\ Accepted(consumed[j])
          /\ DerivedKey(consumed[i]) = DerivedKey(consumed[j])
          /\ consumed[i].s.fields["time"] # consumed[j].s.fields["time"]
    /\ Cardinality(DOMAIN element_totals) >= 2

\* the Count under key k, a key not yet present counting as a fresh Count
CountOf(totals, k) == IF k \in DOMAIN totals THEN totals[k] ELSE Count_new

(***************************************************************************)
(* C10: processing one accepted element-latency entry changes exactly one  *)
(* Count: the one under the key derived from "element" with                *)
(* --sort-element and from "src" without; its n grows by 1 and its total   *)
(* by the entry's time, a new key is inserted once, and every other key    *)
(* keeps its n and total.                                                  *)
(***************************************************************************)
C10_OneCountChangesPerEntry ==
    [][ \A e \in EntryPool :
          pc = "loop" /\ consumed' = Append(consumed, e) /\ Accepted(e) =>
              LET raw == IF opt.sort_by_element THEN e.s.fields["element"]
                                                ELSE e.s.fields["src"]
                  k == IF opt.total_element_view THEN FirstSegmentStripped(raw)
                                                 ELSE raw
              IN  /\ pc' = "loop"
                  /\ DOMAIN element_totals' = DOMAIN element_totals \cup {k}
                  /\ element_totals'[k].n = CountOf(element_totals, k).n + 1
                  /\ element_totals'[k].total =
                        CountOf(element_totals, k).total + e.s.fields["time"]
                  /\ \A other \in DOMAIN element_totals \ {k} :
                        element_totals'[other] = element_totals[other] ]_vars

C10_Witness ==
    /\ opt.sort_by_element
    /\ ~opt.total_element_view
    /\ DOMAIN element_totals = {enc0, queue}
    /\ element_totals[enc0] = [n |-> 2, total |-> 400]
    /\ element_totals[queue] = [n |-> 1, total |-> 7]

====
